---- MODULE Spec2Model ----
(***************************************************************************)
(* Model of scamp-go's Connection (connection engine and message           *)
(* assembler): the packetReader goroutine with routePacket and ackBytes,   *)
(* concurrent Send and Close callers, and the Service.Handle goroutine     *)
(* that consumes the delivery channel conn.msgs.                           *)
(*                                                                         *)
(* Abstractions.  Strings and byte slices are sequences of small naturals. *)
(* The outbound half of the TLS stream is the sequence `wire` of packets   *)
(* that reached it; a packet write succeeds iff conn.conn has not been     *)
(* closed, and a failed write leaves nothing on the stream.  The inbound   *)
(* half is the environment: ReadPacket yields any packet of InPackets, or  *)
(* an error.  The debugging tee (enableWriteTee) is a per-run flag.        *)
(*                                                                         *)
(* Two specifications share the actions.  Spec is the inbound side: the    *)
(* peer sends any packets, Handle consumes, Handle and the application     *)
(* close.  SpecSend is the outbound side: concurrent Send callers, the     *)
(* reader's ACK writes for HEADER/DATA traffic, and the application's      *)
(* Close.                                                                  *)
(*                                                                         *)
(* SpecCache is the ServiceCache: one goroutine calls Store, Refresh and   *)
(* the verification switches, another the lookups.  A cache file is a      *)
(* sequence of lines made of record blocks; DoScan is modelled line by     *)
(* line on a bufio.Scanner whose token is empty once Scan has returned     *)
(* false, one loop iteration per step.  Certificate and signature blobs    *)
(* are the sequences of their lines.  NewServiceProxy and Validate are not *)
(* part of the sources at hand: class records decode by table, and a       *)
(* signature verifies iff it is the good one.  Proxies are compared by     *)
(* value.  A SearchByAction that runs while the lock is held either reads  *)
(* the map as it is or is killed by the runtime's map race detection.      *)
(*                                                                         *)
(* SpecService is the Service: Register, Run with its accept loop, the     *)
(* Handle goroutine of each accepted client, and Stop.  Run's last         *)
(* statement sends on statsCloseChan, an unbuffered channel that no        *)
(* goroutine receives from, so that send has no completing step.           *)
(*                                                                         *)
(* SpecPeers is two connected peers, each running Send and packetReader    *)
(* over a stream that buffers StreamCap packets in each direction; packets *)
(* are reduced to their types.                                             *)
(***************************************************************************)
EXTENDS Integers, Sequences, FiniteSets, TLC

\* ---------------------------------------------------------------- bounds
MaxMsgNo == 1        \* inbound packets carry msgNo in 0..MaxMsgNo
MaxPkts == 4         \* inbound packets the reader reads in one run
MaxSends == 2        \* Send calls in one run
MaxCloses == 1       \* Close calls by the application (the handler adds two)
ChunkSize == 1       \* body bytes per DATA packet produced by toPackets
MaxSendSidePkts == 2 \* inbound packets read while Sends run (SpecSend)
MaxBlocks == 2       \* record blocks in a cache file
MaxCacheOps == 2     \* Store and Refresh calls in one run (SpecCache)
MaxClients == 2      \* connections the service accepts (SpecService)
StreamCap == 1       \* packets a stream buffers in one direction (SpecPeers)
DataPkts == 3        \* DATA packets of the message each peer sends (SpecPeers)

\* ------------------------------------------------------------- constants
HEADER == "HEADER"
DATA == "DATA"
EOF == "EOF"
TXERR == "TXERR"
ACK == "ACK"

Senders == {"s1", "s2"}
Closers == {"app", "handler"}
Free == "free"
Reader == "reader"

\* "There was an unkown error with the connection"
UnknownErrorText == <<9, 9>>

\* packetHeader values: the fields copied by routePacket; `rest` stands for
\* Action, Envelope, Version, MessageType, ErrorCode and Ticket together.
\* A Message has the same fields, Error among them, and its body.
InHeaders == {[rest |-> "A", requestId |-> 1, error |-> <<>>],
              [rest |-> "B", requestId |-> 2, error |-> <<7>>]}
OutHeaders == {[rest |-> "A", requestId |-> 0, error |-> <<>>],
               [rest |-> "B", requestId |-> 5, error |-> <<>>]}
NoHeader == [rest |-> "", requestId |-> 0, error |-> <<>>]

\* a Message: `no` is not a field of the code's Message, it records the
\* msgNo of the HEADER that created it
Msg(n, r, q, e, b) ==
    [no |-> n, rest |-> r, requestId |-> q, error |-> e, body |-> b]

DataBodies == {<<1>>, <<2, 2, 2, 2, 2, 2>>}
TxErrBodies == {<<>>, <<3>>}
OutBodies == {<<>>, <<1, 2>>}

MsgNos == 0..MaxMsgNo

Pkt(t, n, h, b) == [type |-> t, no |-> n, hdr |-> h, body |-> b]

\* what ReadPacket can return
InPackets ==
    {Pkt(HEADER, n, h, <<>>) : n \in MsgNos, h \in InHeaders}
    \cup {Pkt(DATA, n, NoHeader, b) : n \in MsgNos, b \in DataBodies}
    \cup {Pkt(TXERR, n, NoHeader, b) : n \in MsgNos, b \in TxErrBodies}
    \cup {Pkt(EOF, n, NoHeader, <<>>) : n \in MsgNos}
    \cup {Pkt(ACK, 0, NoHeader, <<1>>)}

NoMsg == Msg(-1, "", 0, <<>>, <<>>)

VARIABLES
    \* Connection fields
    incomingmsgno,   \* conn.incomingmsgno
    outgoingmsgno,   \* conn.outgoingmsgno
    pktToMsg,        \* conn.pktToMsg: msgNo -> Message being assembled
    msgsClosed,      \* conn.msgs has been closed
    isClosed,        \* conn.isClosed
    closedMutex,     \* holder of conn.closedMutex
    readWriterLock,  \* holder of conn.readWriterLock
    connClosed,      \* conn.conn (the TLS stream) has been closed
    wire,            \* packets written to the stream, in order
    enableWriteTee,  \* the package flag read by Send and ackBytes
    \* packetReader goroutine
    rdPc,            \* "read", "ack", "publish", "close", "done"
    rdMsg,           \* the message routePacket is sending on conn.msgs
    rdErr,           \* the error that ended the read loop, or "none"
    \* Send callers
    sPc,             \* "idle", "write", "retry", "flush"
    sPkts,           \* the packets of msg.toPackets still to write
    sRes,            \* what the caller's last Send returned
    \* Close callers
    cPc,
    \* Service.Handle goroutine
    hPc,
    \* history
    rcvd,            \* packets ReadPacket returned, in order
    delivered,       \* messages received from conn.msgs, in order
    msgsCloses,      \* times close(conn.msgs) ran
    connCloses,      \* times conn.conn.Close() ran
    sendAfterClose,  \* a send on conn.msgs was attempted after its close
    sendCalls,       \* Send calls made
    lastSend,        \* the caller and the message of the latest Send call
    closeCalls,      \* Close calls made by the application
    \* ServiceCache fields
    identIndex,      \* cache.identIndex: ident -> proxy
    actionIndex,     \* cache.actionIndex: munged name -> list of proxies
    verifyRecords,   \* cache.verifyRecords
    cacheM,          \* holder of cache.cacheM
    \* the goroutine that calls Store, Refresh and the verification switches
    wPc,             \* "idle", "store" (inside storeNoLock), "scan" (inside DoScan)
    wProxy,          \* the instance passed to Store
    scanner,         \* the bufio.Scanner of Refresh: lines and position
    crash,           \* "none", or how the process died: "panic", "fault"
    \* cache history
    verifyApi,       \* the verification switch called last, or "default"
    lastOp,          \* the latest Store or Refresh call, the verification
                     \* switch in force when it was made, and what it returned
    parsed,          \* the proxies NewServiceProxy built in the latest Refresh
    stored,          \* every proxy storeNoLock was called with
    cacheOps,        \* Store and Refresh calls made
    lastRead,        \* the latest Retrieve, Size, All or SearchByAction call:
                     \* its result, whether it held cacheM, and where the
                     \* other goroutine was (wPc) when it read
    \* Service fields
    isRunning,       \* serv.isRunning
    actions,         \* serv.actions: the registered names
    listenerClosed,  \* serv.listener has been closed
    clients,         \* serv.clients
    clientsM,        \* holder of serv.clientsM
    connectionsAccepted, \* serv.connectionsAccepted
    clientClosed,    \* per client: client.Close() has been called
    \* Service goroutines
    runPc,           \* Run: "idle", "accept", "close", "stats"
    handlePc,        \* Handle of each client: "none", "loop", "close",
                     \* "remove", "done"
    \* service history
    lastRegister,    \* the latest Register call and what it returned
    \* two connected peers, each with a Send caller and a packetReader
    peerLock,        \* per peer: holder of its conn.readWriterLock
    peerSend,        \* per peer: packets its Send has still to write
    peerReader,      \* per peer: "read", "ack" (waiting in ackBytes for the
                     \* lock), "write" (in ackBytes with the lock)
    stream           \* per peer: packets written to it and not yet read

connVars == <<incomingmsgno, outgoingmsgno, pktToMsg, msgsClosed, isClosed,
              closedMutex, readWriterLock, connClosed, wire, enableWriteTee>>
readerVars == <<rdPc, rdMsg, rdErr>>
sendVars == <<sPc, sPkts, sRes>>
histVars == <<rcvd, delivered, msgsCloses, connCloses, sendAfterClose,
              sendCalls, lastSend, closeCalls>>
cacheVars == <<identIndex, actionIndex, verifyRecords, cacheM, wPc, wProxy,
               scanner, crash, verifyApi, lastOp, parsed, stored, cacheOps,
               lastRead>>
connectionVars == <<connVars, readerVars, sendVars, cPc, hPc, histVars>>
serviceVars == <<isRunning, actions, listenerClosed, clients, clientsM,
                 connectionsAccepted, clientClosed, runPc, handlePc,
                 lastRegister>>
peerVars == <<peerLock, peerSend, peerReader, stream>>
vars == <<connectionVars, cacheVars, serviceVars, peerVars>>

\* ------------------------------------------------------------- helpers
Last(s) == s[Len(s)]
Front(s) == SubSeq(s, 1, Len(s) - 1)

RECURSIVE Decimal(_)
\* fmt.Sprintf("%d", n): the decimal digits of n, most significant first
Decimal(n) == IF n < 10 THEN <<n>> ELSE Decimal(n \div 10) \o <<n % 10>>

\* Message.Write: append to the body buffer
MsgWrite(m, b) == [m EXCEPT !.body = @ \o b]

\* Message.BytesWritten
BytesWritten(m) == Len(m.body)

\* a HEADER case that leaves out SetRequestId
MsgFromHeaderNoRequestId(p) == Msg(p.no, p.hdr.rest, 0, p.hdr.error, <<>>)

\* NewMessage followed by the Set* calls of the HEADER case
MsgFromHeader(p) ==
    Msg(p.no, p.hdr.rest, p.hdr.requestId, p.hdr.error, <<>>)

\* a TXERR case without the default text
TxErrTextNoDefault(b) == b

\* the msg.Error assignment of the TXERR case
TxErrText(b) == IF Len(b) > 0 THEN b ELSE UnknownErrorText

\* conn.pktToMsg[n] != nil
Tracked(n) == n \in DOMAIN pktToMsg

\* the two checks of the HEADER case
HeaderError(p) ==
    IF p.no # incomingmsgno THEN "OutOfSequence"
    ELSE IF Tracked(p.no) THEN "DuplicateHeader"
    ELSE "none"

\* a HEADER case that forgets the increment
NextIncomingStuck(n) == n

\* atomic.AddUint64(&conn.incomingmsgno, 1)
NextIncoming(n) == n + 1

\* conn.pktToMsg[n] = msg
MapPut(map, n, m) == [k \in DOMAIN map \cup {n} |-> IF k = n THEN m ELSE map[k]]

\* an EOF/TXERR case that forgets the delete
MapDeleteNothing(map, n) == map

\* delete(conn.pktToMsg, n)
MapDelete(map, n) == [k \in DOMAIN map \ {n} |-> map[k]]

\* an ACK that carries the bytes of the last packet only
AckPacketDelta(n, count) == Pkt(ACK, n, NoHeader, Decimal(Len(Last(rcvd).body)))

\* the Packet built by ackBytes
AckPacket(n, count) == Pkt(ACK, n, NoHeader, Decimal(count))

\* a packet write on the stream: it is appended iff the stream is open
WriteOk == ~connClosed

\* the elements of a list
Range(seq) == {seq[i] : i \in 1..Len(seq)}

\* the concatenation of a sequence of sequences
RECURSIVE Flatten(_)
Flatten(seq) == IF seq = <<>> THEN <<>> ELSE Head(seq) \o Flatten(Tail(seq))

\* ------------------------------------------------- service cache: data
\* a cache file is a sequence of lines; bufio.Scanner yields them one by one
sep == "%%%"
Blank == ""
CertLine == "-----CERTIFICATE-----"
GoodSig == "c2lnbmVk"
BadSig == "Y29ycnVwdA"
Junk == "{junk"

Nil == [ident |-> "nil"]

\* the class records NewServiceProxy can parse: line -> the decoded fields
ClassRecordLines == {"a1", "a2", "b1"}
ClassRecords(line) ==
    CASE line = "a1" ->
           [ident |-> "a", sector |-> "main",
            classes |-> <<[className |-> "Cls",
                           actions |-> <<[actionName |-> "do", version |-> 1]>>]>>,
            protocols |-> <<"json">>]
      [] line = "a2" ->
           [ident |-> "a", sector |-> "main",
            classes |-> <<[className |-> "Cls",
                           actions |-> <<[actionName |-> "do", version |-> 2]>>]>>,
            protocols |-> <<"json">>]
      [] line = "b1" ->
           [ident |-> "b", sector |-> "main",
            classes |-> <<[className |-> "Cls",
                           actions |-> <<[actionName |-> "do", version |-> 1]>>]>>,
            protocols |-> <<"json", "jsonstore">>]

\* NewServiceProxy(classRecordsRaw, certRaw, sigRaw): the proxy, or an error
\* for class records that do not decode
NewServiceProxy(classRecordsRaw, certRaw, sigRaw) ==
    IF classRecordsRaw \in ClassRecordLines
    THEN [err |-> FALSE,
          proxy |-> [ident |-> ClassRecords(classRecordsRaw).ident,
                     sector |-> ClassRecords(classRecordsRaw).sector,
                     classes |-> ClassRecords(classRecordsRaw).classes,
                     protocols |-> ClassRecords(classRecordsRaw).protocols,
                     classRecordsRaw |-> classRecordsRaw,
                     cert |-> certRaw,
                     sig |-> sigRaw]]
    ELSE [err |-> TRUE, proxy |-> Nil]

\* serviceProxy.Validate(): the signature over the class records verifies
\* with the key of the certificate
Validate(proxy) == proxy.cert = <<CertLine>> /\ proxy.sig = <<GoodSig>>

\* the instances callers pass to Store
StoreProxies ==
    {NewServiceProxy(l, <<CertLine>>, <<GoodSig>>).proxy : l \in ClassRecordLines}

\* a store-time name without the class
StoreMungedNameNoClass(sector, className, actionName, version, protocol) ==
    sector \o ":" \o actionName \o "~" \o ToString(version) \o "#" \o protocol

\* fmt.Sprintf("%s:%s.%s~%d#%s", ...) of storeNoLock
StoreMungedName(sector, className, actionName, version, protocol) ==
    sector \o ":" \o className \o "." \o actionName \o "~"
           \o ToString(version) \o "#" \o protocol

\* fmt.Sprintf("%s:%s~%d#%s", ...) of SearchByAction
SearchMungedName(sector, action, version, envelope) ==
    sector \o ":" \o action \o "~" \o ToString(version) \o "#" \o envelope

\* the munged names of an instance, in the order of storeNoLock's loops
MungedNames(instance) ==
    Flatten([c \in 1..Len(instance.classes) |->
      Flatten([a \in 1..Len(instance.classes[c].actions) |->
        [q \in 1..Len(instance.protocols) |->
           StoreMungedName(instance.sector,
                           instance.classes[c].className,
                           instance.classes[c].actions[a].actionName,
                           instance.classes[c].actions[a].version,
                           instance.protocols[q])]])])

\* the record blocks cache files are made of: class records line, signature
\* line and layout.  "blank": the signature ends in a blank line; "tight":
\* it ends at the next separator or the end of the file; "nonl": no blank
\* line after the class records; "nocert", "nosig": the block stops after
\* the class records' blank line, after the certificate's blank line;
\* "empty": a separator followed by a blank line
BlockLines(b) ==
    CASE b.shape = "blank" -> <<sep, b.cr, Blank, CertLine, Blank, b.sig, Blank>>
      [] b.shape = "tight" -> <<sep, b.cr, Blank, CertLine, Blank, b.sig>>
      [] b.shape = "nonl" -> <<sep, b.cr, CertLine, Blank, b.sig, Blank>>
      [] b.shape = "nocert" -> <<sep, b.cr, Blank>>
      [] b.shape = "nosig" -> <<sep, b.cr, Blank, CertLine, Blank>>
      [] b.shape = "empty" -> <<sep, Blank>>

WellFormedBlocks ==
    [cr : {"a1", "b1"}, sig : {GoodSig}, shape : {"blank", "tight"}]
    \cup [cr : {"a1"}, sig : {BadSig}, shape : {"blank"}]

Blocks ==
    WellFormedBlocks
    \cup [cr : {Junk}, sig : {GoodSig}, shape : {"blank"}]
    \cup [cr : {"a1"}, sig : {GoodSig}, shape : {"nonl", "nocert", "nosig", "empty"}]

BlockSeqs(set) == UNION {[1..n -> set] : n \in 0..MaxBlocks}

FileLines(bs) == Flatten([i \in 1..Len(bs) |-> BlockLines(bs[i])])

\* what can be at cache.path: nothing, a directory, a file that cannot be
\* opened, or a file of record blocks
Missing == [kind |-> "missing", lines |-> <<>>]
Directory == [kind |-> "directory", lines |-> <<>>]
Unreadable == [kind |-> "unreadable", lines |-> <<>>]
File(lines) == [kind |-> "file", lines |-> lines]
Files == {File(FileLines(bs)) : bs \in BlockSeqs(Blocks)}
Paths == {Missing, Directory, Unreadable} \cup Files

\* the arguments of the lookups
Idents == {"a", "b"}
SearchArgs == [sector : {"main"}, action : {"Cls.do"}, version : {1, 2},
               envelope : {"json", "jsonstore"}]

NoOp == [op |-> "none", proxy |-> Nil, path |-> Missing, api |-> "default",
         err |-> "none"]
NoRead == [op |-> "none", arg |-> "", res |-> "", locked |-> TRUE,
           fault |-> FALSE, during |-> "idle"]

CacheInit ==
    /\ identIndex = <<>>
    /\ actionIndex = <<>>
    /\ verifyRecords = TRUE
    /\ cacheM = Free
    /\ wPc = "idle"
    /\ wProxy = Nil
    /\ scanner = [lines |-> <<>>, pos |-> 0]
    /\ crash = "none"
    /\ verifyApi = "default"
    /\ lastOp = NoOp
    /\ parsed = <<>>
    /\ stored = {}
    /\ cacheOps = 0
    /\ lastRead = NoRead

\* ------------------------------------------------------ service: data
RegisterNames == {"Cls.do", "Cls.undo"}
ClientIds == 1..MaxClients
RunningError == "cannot register handlers while server is running"
NoRegister == [name |-> "", err |-> "nil", run |-> "idle", added |-> FALSE]

\* NewServiceExplicitCert: no actions, a listener, no clients; statsCloseChan
\* is made and no goroutine is started to receive from it
ServiceInit ==
    /\ isRunning = FALSE
    /\ actions = {}
    /\ listenerClosed = FALSE
    /\ clients = <<>>
    /\ clientsM = Free
    /\ connectionsAccepted = 0
    /\ clientClosed = [c \in ClientIds |-> FALSE]
    /\ runPc = "idle"
    /\ handlePc = [c \in ClientIds |-> "none"]
    /\ lastRegister = NoRegister

\* --------------------------------------------------------- peers: data
Peers == {"A", "B"}
Other(p) == IF p = "A" THEN "B" ELSE "A"

\* msg.toPackets() of the message each peer sends: HEADER, DATA..., EOF
PeerPackets == <<HEADER>> \o [i \in 1..DataPkts |-> DATA] \o <<EOF>>

PeerInit ==
    /\ peerLock = [p \in Peers |-> Free]
    /\ peerSend = [p \in Peers |-> [pc |-> "idle", pkts |-> <<>>]]
    /\ peerReader = [p \in Peers |-> "read"]
    /\ stream = [p \in Peers |-> <<>>]

\* ---------------------------------------------------------------- Init
Init ==
    /\ incomingmsgno = 0
    /\ outgoingmsgno = 0
    /\ pktToMsg = <<>>
    /\ msgsClosed = FALSE
    /\ isClosed = FALSE
    /\ closedMutex = Free
    /\ readWriterLock = Free
    /\ connClosed = FALSE
    /\ wire = <<>>
    /\ enableWriteTee \in BOOLEAN
    /\ rdPc = "read"
    /\ rdMsg = NoMsg
    /\ rdErr = "none"
    /\ sPc = [s \in Senders |-> "idle"]
    /\ sPkts = [s \in Senders |-> <<>>]
    /\ sRes = [s \in Senders |-> "none"]
    /\ cPc = [c \in Closers |-> "idle"]
    /\ hPc = "select"
    /\ rcvd = <<>>
    /\ delivered = <<>>
    /\ msgsCloses = 0
    /\ connCloses = 0
    /\ sendAfterClose = FALSE
    /\ sendCalls = 0
    /\ lastSend = [who |-> "nobody", msg |-> NoMsg]
    /\ closeCalls = 0
    /\ CacheInit
    /\ ServiceInit
    /\ PeerInit

\* ------------------------------------------------------- packetReader
\* a read loop that logs the routePacket error and goes on reading
ReaderFailContinue(e) ==
    /\ rdErr' = e
    /\ rdPc' = "read"
    /\ UNCHANGED <<cacheVars, serviceVars, peerVars, incomingmsgno, pktToMsg, rdMsg, sendAfterClose>>

\* routePacket returned an error: break PacketReaderLoop
ReaderFail(e) ==
    /\ rdErr' = e
    /\ rdPc' = "close"
    /\ UNCHANGED <<cacheVars, serviceVars, peerVars, incomingmsgno, pktToMsg, rdMsg, sendAfterClose>>

\* conn.msgs <- msg: the reader blocks until Handle receives
Publish(m) ==
    /\ rdPc' = "publish"
    /\ rdMsg' = m
    /\ sendAfterClose' = (sendAfterClose \/ msgsClosed)

ReadGuard ==
    /\ rdPc = "read"
    /\ Len(rcvd) < MaxPkts

\* ReadPacket returned a HEADER packet
ReadHeader(p) ==
    /\ ReadGuard
    /\ p.type = HEADER
    /\ rcvd' = Append(rcvd, p)
    /\ IF HeaderError(p) # "none"
       THEN ReaderFail(HeaderError(p))
       ELSE /\ pktToMsg' = MapPut(pktToMsg, p.no, MsgFromHeader(p))
            /\ incomingmsgno' = NextIncoming(incomingmsgno)
            /\ UNCHANGED <<cacheVars, serviceVars, peerVars, rdPc, rdMsg, rdErr, sendAfterClose>>
    /\ UNCHANGED <<cacheVars, serviceVars, peerVars, outgoingmsgno, msgsClosed, isClosed, closedMutex,
                   readWriterLock, connClosed, wire, enableWriteTee,
                   sendVars, cPc, hPc, delivered, msgsCloses, connCloses,
                   sendCalls, lastSend, closeCalls>>

\* ReadPacket returned a DATA packet
ReadData(p) ==
    /\ ReadGuard
    /\ p.type = DATA
    /\ rcvd' = Append(rcvd, p)
    /\ IF ~Tracked(p.no)
       THEN ReaderFail("UntrackedMessage")
       ELSE /\ pktToMsg' = [pktToMsg EXCEPT ![p.no] = MsgWrite(@, p.body)]
            /\ rdPc' = "ack"
            /\ UNCHANGED <<cacheVars, serviceVars, peerVars, incomingmsgno, rdMsg, rdErr, sendAfterClose>>
    /\ UNCHANGED <<cacheVars, serviceVars, peerVars, outgoingmsgno, msgsClosed, isClosed, closedMutex,
                   readWriterLock, connClosed, wire, enableWriteTee,
                   sendVars, cPc, hPc, delivered, msgsCloses, connCloses,
                   sendCalls, lastSend, closeCalls>>

\* ReadPacket returned an EOF packet
ReadEOF(p) ==
    /\ ReadGuard
    /\ p.type = EOF
    /\ rcvd' = Append(rcvd, p)
    /\ IF ~Tracked(p.no)
       THEN ReaderFail("UntrackedMessage")
       ELSE /\ pktToMsg' = MapDelete(pktToMsg, p.no)
            /\ Publish(pktToMsg[p.no])
            /\ UNCHANGED <<cacheVars, serviceVars, peerVars, incomingmsgno, rdErr>>
    /\ UNCHANGED <<cacheVars, serviceVars, peerVars, outgoingmsgno, msgsClosed, isClosed, closedMutex,
                   readWriterLock, connClosed, wire, enableWriteTee,
                   sendVars, cPc, hPc, delivered, msgsCloses, connCloses,
                   sendCalls, lastSend, closeCalls>>

\* ReadPacket returned a TXERR packet
ReadTXERR(p) ==
    /\ ReadGuard
    /\ p.type = TXERR
    /\ rcvd' = Append(rcvd, p)
    /\ IF ~Tracked(p.no)
       THEN ReaderFail("UntrackedMessage")
       ELSE /\ pktToMsg' = [pktToMsg EXCEPT ![p.no] =
                   MsgWrite([@ EXCEPT !.error = TxErrText(p.body)], p.body)]
            /\ rdPc' = "ack"
            /\ UNCHANGED <<cacheVars, serviceVars, peerVars, incomingmsgno, rdMsg, rdErr, sendAfterClose>>
    /\ UNCHANGED <<cacheVars, serviceVars, peerVars, outgoingmsgno, msgsClosed, isClosed, closedMutex,
                   readWriterLock, connClosed, wire, enableWriteTee,
                   sendVars, cPc, hPc, delivered, msgsCloses, connCloses,
                   sendCalls, lastSend, closeCalls>>

\* ReadPacket returned an ACK packet: routePacket only logs it
ReadACK(p) ==
    /\ ReadGuard
    /\ p.type = ACK
    /\ rcvd' = Append(rcvd, p)
    /\ UNCHANGED <<cacheVars, serviceVars, peerVars, connVars, readerVars, sendVars, cPc, hPc, delivered,
                   msgsCloses, connCloses, sendAfterClose, sendCalls, lastSend,
                   closeCalls>>

\* ReadPacket returned an error (end of stream, closed or reset connection,
\* malformed packet): break PacketReaderLoop
ReadError ==
    /\ rdPc = "read"
    /\ rdPc' = "close"
    /\ rdErr' = "ReadError"
    /\ UNCHANGED <<cacheVars, serviceVars, peerVars, connVars, rdMsg, sendVars, cPc, hPc, histVars>>

\* an ackBytes that writes without taking the lock
AckLockSkipped == TRUE

\* conn.readWriterLock.Lock() in ackBytes: the reader waits for the lock
AckLockFree == readWriterLock = Free

\* ackBytes, called by the DATA and TXERR cases: lock, write the ACK packet,
\* flush, unlock.  Its error result is dropped by routePacket.  After it the
\* DATA case returns to the loop and the TXERR case deletes and publishes.
AckBytes ==
    /\ rdPc = "ack"
    /\ AckLockFree
    /\ LET p == Last(rcvd)
           m == pktToMsg[p.no]
       IN /\ wire' = IF WriteOk
                     THEN Append(wire, AckPacket(p.no, BytesWritten(m)))
                     ELSE wire
          /\ IF p.type = TXERR
             THEN /\ pktToMsg' = MapDelete(pktToMsg, p.no)
                  /\ Publish(m)
             ELSE /\ rdPc' = "read"
                  /\ UNCHANGED <<cacheVars, serviceVars, peerVars, pktToMsg, rdMsg, sendAfterClose>>
    /\ UNCHANGED <<cacheVars, serviceVars, peerVars, incomingmsgno, outgoingmsgno, msgsClosed, isClosed,
                   closedMutex, readWriterLock, connClosed, enableWriteTee,
                   rdErr, sendVars, cPc, hPc, rcvd, delivered, msgsCloses,
                   connCloses, sendCalls, lastSend, closeCalls>>

\* close(conn.msgs) after the loop
ReaderClose ==
    /\ rdPc = "close"
    /\ rdPc' = "done"
    /\ msgsClosed' = TRUE
    /\ msgsCloses' = msgsCloses + 1
    /\ UNCHANGED <<cacheVars, serviceVars, peerVars, incomingmsgno, outgoingmsgno, pktToMsg, isClosed,
                   closedMutex, readWriterLock, connClosed, wire,
                   enableWriteTee, rdMsg, rdErr, sendVars, cPc, hPc, rcvd,
                   delivered, connCloses, sendAfterClose, sendCalls, lastSend,
                   closeCalls>>

ReaderStep ==
    \/ \E p \in InPackets :
         ReadHeader(p) \/ ReadData(p) \/ ReadEOF(p) \/ ReadTXERR(p) \/ ReadACK(p)
    \/ ReadError
    \/ AckBytes
    \/ ReaderClose

\* ------------------------------------------------------ Service.Handle
\* case msg, ok := <-client.Incoming() with ok: the message is handled
HandleRecv ==
    /\ hPc = "select"
    /\ rdPc = "publish"
    /\ delivered' = Append(delivered, rdMsg)
    /\ rdPc' = "read"
    /\ rdMsg' = NoMsg
    /\ UNCHANGED <<cacheVars, serviceVars, peerVars, connVars, rdErr, sendVars, cPc, hPc, rcvd, msgsCloses,
                   connCloses, sendAfterClose, sendCalls, lastSend, closeCalls>>


\* case msg, ok := <-client.Incoming() with !ok: break HandlerLoop
HandleClosed ==
    /\ hPc = "select"
    /\ msgsClosed
    /\ hPc' = "close1"
    /\ UNCHANGED <<cacheVars, serviceVars, peerVars, connVars, readerVars, sendVars, cPc, histVars>>

\* case <-time.After(msgTimeout): no message arrived in time
HandleTimeout ==
    /\ hPc = "select"
    /\ rdPc # "publish"
    /\ ~msgsClosed
    /\ hPc' = "close1"
    /\ UNCHANGED <<cacheVars, serviceVars, peerVars, connVars, readerVars, sendVars, cPc, histVars>>

\* --------------------------------------------------- Connection.Close
\* a Close that does not look at isClosed
AlreadyClosedIgnored == FALSE

\* if conn.isClosed
AlreadyClosed == isClosed

\* Close up to conn.conn.Close(): lock closedMutex; if isClosed, unlock and
\* return; otherwise close the stream and keep the mutex
CloseBody(c) ==
    /\ closedMutex = Free
    /\ IF AlreadyClosed
       THEN UNCHANGED <<cacheVars, serviceVars, peerVars, closedMutex, connClosed, connCloses, cPc>>
       ELSE /\ connClosed' = TRUE
            /\ connCloses' = connCloses + 1
            /\ closedMutex' = c
            /\ cPc' = [cPc EXCEPT ![c] = "mark"]

\* conn.isClosed = true; conn.closedMutex.Unlock()
CloseMark(c) ==
    /\ cPc[c] = "mark"
    /\ isClosed' = TRUE
    /\ closedMutex' = Free
    /\ cPc' = [cPc EXCEPT ![c] = "idle"]
    /\ UNCHANGED <<cacheVars, serviceVars, peerVars, incomingmsgno, outgoingmsgno, pktToMsg, msgsClosed,
                   readWriterLock, connClosed, wire, enableWriteTee,
                   readerVars, sendVars, hPc, histVars>>

\* the application calls conn.Close()
AppClose ==
    /\ cPc["app"] = "idle"
    /\ closeCalls < MaxCloses
    /\ closeCalls' = closeCalls + 1
    /\ CloseBody("app")
    /\ UNCHANGED <<cacheVars, serviceVars, peerVars, incomingmsgno, outgoingmsgno, pktToMsg, msgsClosed, isClosed,
                   readWriterLock, wire, enableWriteTee, readerVars, sendVars,
                   hPc, rcvd, delivered, msgsCloses, sendAfterClose, sendCalls,
                   lastSend>>

\* client.Close() after HandlerLoop, and client.Close() again inside
\* RemoveClient: each closes the client's connection
HandleClose ==
    /\ hPc \in {"close1", "close2"}
    /\ cPc["handler"] = "idle"
    /\ CloseBody("handler")
    /\ hPc' = IF hPc = "close1" THEN "close2" ELSE "done"
    /\ UNCHANGED <<cacheVars, serviceVars, peerVars, incomingmsgno, outgoingmsgno, pktToMsg, msgsClosed, isClosed,
                   readWriterLock, wire, enableWriteTee, readerVars, sendVars,
                   rcvd, delivered, msgsCloses, sendAfterClose, sendCalls,
                   lastSend, closeCalls>>

HandleStep == HandleRecv \/ HandleClosed \/ HandleTimeout \/ HandleClose

\* ----------------------------------------------------- Connection.Send
RECURSIVE Chunks(_)
\* the body cut into slices of at most ChunkSize bytes
Chunks(b) ==
    IF Len(b) = 0 THEN <<>>
    ELSE IF Len(b) <= ChunkSize THEN <<b>>
    ELSE <<SubSeq(b, 1, ChunkSize)>> \o Chunks(SubSeq(b, ChunkSize + 1, Len(b)))

\* msg.toPackets(msgno): HEADER, one DATA per chunk, EOF
toPackets(m, n) ==
    <<Pkt(HEADER, n, [rest |-> m.rest, requestId |-> m.requestId,
                      error |-> m.error], <<>>)>>
    \o [i \in 1..Len(Chunks(m.body)) |-> Pkt(DATA, n, NoHeader, Chunks(m.body)[i])]
    \o <<Pkt(EOF, n, NoHeader, <<>>)>>

OutMsgs == {Msg(-1, h.rest, h.requestId, h.error, b) :
              h \in OutHeaders, b \in OutBodies}

\* a Send without the RequestId check
MissingRequestIdUnchecked(m) == FALSE

\* msg.RequestId == 0
MissingRequestId(m) == m.requestId = 0

\* atomic.LoadUint64(&conn.outgoingmsgno), the msgNo this Send uses
LoadOutgoing == outgoingmsgno

\* atomic.AddUint64(&conn.outgoingmsgno, 1)
NextOutgoing(n) == n + 1

\* Send up to the packet loop: lock readWriterLock; a message without
\* RequestId is refused (the deferred unlock runs); otherwise the msgNo is
\* taken and the packets are built
SendBegin(s, m) ==
    /\ sPc[s] = "idle"
    /\ sendCalls < MaxSends
    /\ readWriterLock = Free
    /\ sendCalls' = sendCalls + 1
    /\ lastSend' = [who |-> s, msg |-> m]
    /\ IF MissingRequestId(m)
       THEN /\ sRes' = [sRes EXCEPT ![s] = "MissingRequestId"]
            /\ UNCHANGED <<cacheVars, serviceVars, peerVars, readWriterLock, outgoingmsgno, sPc, sPkts>>
       ELSE /\ readWriterLock' = s
            /\ outgoingmsgno' = NextOutgoing(outgoingmsgno)
            /\ sPkts' = [sPkts EXCEPT ![s] = toPackets(m, LoadOutgoing)]
            /\ sPc' = [sPc EXCEPT ![s] = "write"]
            /\ sRes' = [sRes EXCEPT ![s] = "none"]
    /\ UNCHANGED <<cacheVars, serviceVars, peerVars, incomingmsgno, pktToMsg, msgsClosed, isClosed, closedMutex,
                   connClosed, wire, enableWriteTee, readerVars, cPc, hPc,
                   rcvd, delivered, msgsCloses, connCloses, sendAfterClose,
                   closeCalls>>

\* pkt.Write succeeded: next packet, or leave the loop
SendWrite(s) ==
    /\ sPc[s] = "write"
    /\ WriteOk
    /\ wire' = Append(wire, Head(sPkts[s]))
    /\ sPkts' = [sPkts EXCEPT ![s] = Tail(@)]
    /\ sPc' = [sPc EXCEPT ![s] = IF Len(sPkts[s]) = 1 THEN "flush" ELSE "write"]
    /\ UNCHANGED <<cacheVars, serviceVars, peerVars, incomingmsgno, outgoingmsgno, pktToMsg, msgsClosed, isClosed,
                   closedMutex, readWriterLock, connClosed, enableWriteTee,
                   readerVars, sRes, cPc, hPc, histVars>>

\* what Send does when pkt.Write returned an error: with the tee it returns
\* the error (the deferred unlock runs), without it logs and tries again
WriteFailed(s) ==
    IF enableWriteTee
    THEN /\ sPc' = [sPc EXCEPT ![s] = "idle"]
         /\ sRes' = [sRes EXCEPT ![s] = "WriteError"]
         /\ sPkts' = [sPkts EXCEPT ![s] = <<>>]
         /\ readWriterLock' = Free
    ELSE /\ sPc' = [sPc EXCEPT ![s] = "retry"]
         /\ UNCHANGED <<cacheVars, serviceVars, peerVars, sRes, sPkts, readWriterLock>>

\* pkt.Write returned an error
SendWriteErr(s) ==
    /\ sPc[s] = "write"
    /\ ~WriteOk
    /\ WriteFailed(s)
    /\ UNCHANGED <<cacheVars, serviceVars, peerVars, incomingmsgno, outgoingmsgno, pktToMsg, msgsClosed, isClosed,
                   closedMutex, connClosed, wire, enableWriteTee, readerVars,
                   cPc, hPc, histVars>>

\* continue: the same packet is written again
SendRetry(s) ==
    /\ sPc[s] = "retry"
    /\ sPc' = [sPc EXCEPT ![s] = "write"]
    /\ UNCHANGED <<cacheVars, serviceVars, peerVars, connVars, readerVars, sPkts, sRes, cPc, hPc, histVars>>

\* conn.readWriter.Flush(); return nil; the deferred unlock runs
SendFlush(s) ==
    /\ sPc[s] = "flush"
    /\ sPc' = [sPc EXCEPT ![s] = "idle"]
    /\ sRes' = [sRes EXCEPT ![s] = "ok"]
    /\ readWriterLock' = Free
    /\ UNCHANGED <<cacheVars, serviceVars, peerVars, incomingmsgno, outgoingmsgno, pktToMsg, msgsClosed, isClosed,
                   closedMutex, connClosed, wire, enableWriteTee, readerVars,
                   sPkts, cPc, hPc, histVars>>

SendStep(s) ==
    \/ \E m \in OutMsgs : SendBegin(s, m)
    \/ SendWrite(s)
    \/ SendWriteErr(s)
    \/ SendRetry(s)
    \/ SendFlush(s)

\* ------------------------------------------------------ specifications
\* the inbound side; the tee changes nothing the reader does
InitNoTee == Init /\ enableWriteTee = FALSE

Next ==
    \/ ReaderStep
    \/ HandleStep
    \/ AppClose
    \/ \E c \in Closers : CloseMark(c)

Spec == InitNoTee /\ [][Next]_vars

\* the peer's traffic on the outbound side: headers and data, which make
\* the reader write ACK packets between the Sends
SendSidePackets ==
    {Pkt(HEADER, n, [rest |-> "A", requestId |-> 1, error |-> <<>>], <<>>) : n \in MsgNos}
    \cup {Pkt(DATA, n, NoHeader, <<1>>) : n \in MsgNos}

ReaderStepSend ==
    \/ \E p \in SendSidePackets :
         Len(rcvd) < MaxSendSidePkts /\ (ReadHeader(p) \/ ReadData(p))
    \/ AckBytes

\* the outbound side
NextSend ==
    \/ \E s \in Senders : SendStep(s)
    \/ ReaderStepSend
    \/ AppClose
    \/ CloseMark("app")

SpecSend == Init /\ [][NextSend]_vars

\* the scheduler runs a goroutine that can take a step: a Send past its
\* lock, and the reader's ackBytes
SpecSendFair ==
    /\ SpecSend
    /\ \A s \in Senders :
          WF_vars(SendWrite(s) \/ SendWriteErr(s) \/ SendRetry(s) \/ SendFlush(s))
    /\ WF_vars(AckBytes)

\* a ReadPacket on a closed connection returns
ReadAfterClose ==
    /\ connClosed
    /\ \/ \E p \in InPackets :
            ReadHeader(p) \/ ReadData(p) \/ ReadEOF(p) \/ ReadTXERR(p) \/ ReadACK(p)
       \/ ReadError

\* the scheduler runs the reader, the handler and a caller inside Close
\* whenever they can take a step, and the handler's timer fires
SpecFair ==
    /\ Spec
    /\ WF_vars(ReadAfterClose)
    /\ WF_vars(AckBytes)
    /\ WF_vars(ReaderClose)
    /\ WF_vars(HandleStep)
    /\ \A c \in Closers : WF_vars(CloseMark(c))

\* ------------------------------------------------------- ServiceCache
\* cache.identIndex[instance.ident] = instance, in both branches
storeIdent(index, instance) ==
    [k \in DOMAIN index \cup {instance.ident} |->
        IF k = instance.ident THEN instance ELSE index[k]]

\* the loops of storeNoLock: instance is appended to the list of each of
\* its munged names
RECURSIVE storeActions(_, _, _)
storeActions(index, names, instance) ==
    IF names = <<>>
    THEN index
    ELSE LET n == Head(names)
             serviceProxies == IF n \in DOMAIN index
                               THEN Append(index[n], instance)
                               ELSE <<instance>>
         IN storeActions([k \in DOMAIN index \cup {n} |->
                             IF k = n THEN serviceProxies ELSE index[k]],
                         Tail(names), instance)

\* delete(cache.identIndex, instance.ident); an untracked ident is an error
\* that DoScan only logs
removeNoLock(index, instance) ==
    [k \in DOMAIN index \ {instance.ident} |-> index[k]]

\* clearNoLock: a new identIndex; actionIndex is left as it is
clearNoLock(index) == <<>>

\* cache.identIndex[ident], nil when absent
RetrieveResult(ident) ==
    IF ident \in DOMAIN identIndex THEN identIndex[ident] ELSE Nil

\* cache.actionIndex[mungedName], nil (the empty list) when absent
SearchResult(a) ==
    LET mungedName == SearchMungedName(a.sector, a.action, a.version, a.envelope)
    IN IF mungedName \in DOMAIN actionIndex THEN actionIndex[mungedName] ELSE <<>>

CacheUp == crash = "none"

\* DisableRecordVerification()
DisableRecordVerification ==
    /\ CacheUp /\ wPc = "idle"
    /\ verifyRecords' = TRUE
    /\ verifyApi' = "disabled"
    /\ UNCHANGED <<connectionVars, serviceVars, peerVars, identIndex, actionIndex, cacheM, wPc, wProxy,
                   scanner, crash, lastOp, parsed, stored, cacheOps, lastRead>>

\* EnableRecordVerification()
EnableRecordVerification ==
    /\ CacheUp /\ wPc = "idle"
    /\ verifyRecords' = FALSE
    /\ verifyApi' = "enabled"
    /\ UNCHANGED <<connectionVars, serviceVars, peerVars, identIndex, actionIndex, cacheM, wPc, wProxy,
                   scanner, crash, lastOp, parsed, stored, cacheOps, lastRead>>

\* Store(instance): lock, and the identIndex assignment of storeNoLock
Store(instance) ==
    /\ CacheUp /\ wPc = "idle"
    /\ cacheOps < MaxCacheOps
    /\ cacheM = Free
    /\ cacheM' = "writer"
    /\ identIndex' = storeIdent(identIndex, instance)
    /\ wPc' = "store"
    /\ wProxy' = instance
    /\ lastOp' = [op |-> "store", proxy |-> instance, path |-> Missing,
                  api |-> verifyApi, err |-> "pending"]
    /\ cacheOps' = cacheOps + 1
    /\ UNCHANGED <<connectionVars, serviceVars, peerVars, actionIndex, verifyRecords, scanner, crash,
                   verifyApi, parsed, stored, lastRead>>

\* Store, continued: the actionIndex loops of storeNoLock, and the unlock
StoreReturn ==
    /\ CacheUp /\ wPc = "store"
    /\ actionIndex' = storeActions(actionIndex, MungedNames(wProxy), wProxy)
    /\ stored' = stored \cup {wProxy}
    /\ cacheM' = Free
    /\ wPc' = "idle"
    /\ wProxy' = Nil
    /\ lastOp' = [lastOp EXCEPT !.err = "none"]
    /\ UNCHANGED <<connectionVars, serviceVars, peerVars, identIndex, verifyRecords, scanner, crash,
                   verifyApi, parsed, cacheOps, lastRead>>

\* a stat that does not look at IsDir
StatOpenFailsNoDirCheck(path) == path \in {Missing, Unreadable}

\* os.Stat fails, stat.IsDir(), or os.Open fails
StatOpenFails(path) == path \in {Missing, Directory, Unreadable}

\* the lines bufio.Scanner reads from what is at the path
LinesAt(path) == path.lines

\* Refresh() whose stat or open fails: lock, return the error, unlock
RefreshFails(path) ==
    /\ CacheUp /\ wPc = "idle"
    /\ cacheOps < MaxCacheOps
    /\ cacheM = Free
    /\ StatOpenFails(path)
    /\ lastOp' = [op |-> "refresh", proxy |-> Nil, path |-> path,
                  api |-> verifyApi, err |-> "CacheIoError"]
    /\ cacheOps' = cacheOps + 1
    /\ UNCHANGED <<connectionVars, serviceVars, peerVars, identIndex, actionIndex, verifyRecords,
                   cacheM, wPc, wProxy, scanner, crash, verifyApi, parsed,
                   stored, lastRead>>

\* Refresh() up to the loop of DoScan: lock, stat, open, clearNoLock
RefreshOpen(path) ==
    /\ CacheUp /\ wPc = "idle"
    /\ cacheOps < MaxCacheOps
    /\ cacheM = Free
    /\ ~StatOpenFails(path)
    /\ cacheM' = "writer"
    /\ identIndex' = clearNoLock(identIndex)
    /\ scanner' = [lines |-> LinesAt(path), pos |-> 0]
    /\ wPc' = "scan"
    /\ parsed' = <<>>
    /\ lastOp' = [op |-> "refresh", proxy |-> Nil, path |-> path,
                  api |-> verifyApi, err |-> "pending"]
    /\ cacheOps' = cacheOps + 1
    /\ UNCHANGED <<connectionVars, serviceVars, peerVars, actionIndex, verifyRecords, wProxy, crash,
                   verifyApi, stored, lastRead>>

\* s.Scan(): the next line, or false (and a nil token) at the end
Scan(s) == [s EXCEPT !.pos = IF @ <= Len(s.lines) THEN @ + 1 ELSE @]
DidScan(s) == s.pos <= Len(s.lines)
Bytes(s) == IF s.pos \in 1..Len(s.lines) THEN s.lines[s.pos] ELSE Blank

\* the inner loop that scans to the next separator line
RECURSIVE SkipToSep(_)
SkipToSep(s) ==
    LET t == Scan(s)
    IN IF Bytes(t) = sep \/ ~DidScan(t) THEN t ELSE SkipToSep(t)

\* the certificate and signature loops: lines are written to the buffer
\* until the scan ends, a blank line or (signature only) a separator line
RECURSIVE ReadBlob(_, _, _)
ReadBlob(s, buffer, stopAtSep) ==
    LET t == Scan(s)
    IN IF ~DidScan(t) \/ Bytes(t) = Blank \/ (stopAtSep /\ Bytes(t) = sep)
       THEN [s |-> t, buffer |-> buffer]
       ELSE ReadBlob(t, Append(buffer, Bytes(t)), stopAtSep)

\* one iteration of the loop of DoScan, up to NewServiceProxy: "end" for the
\* two breaks, "nonl" for the error return, "panic" for the slice
\* [0 : len-1] of an empty buffer, "proxy" with the result of NewServiceProxy
ScanBlock(s) ==
    LET s1 == SkipToSep(s)
        s2 == Scan(s1)
        s3 == Scan(s2)
        cert == ReadBlob(s3, <<>>, FALSE)
        sig == ReadBlob(cert.s, <<>>, TRUE)
        none == [err |-> TRUE, proxy |-> Nil]
    IN IF ~DidScan(s1) THEN [kind |-> "end", s |-> s1, r |-> none]
       ELSE IF Bytes(s2) = Blank THEN [kind |-> "end", s |-> s2, r |-> none]
       ELSE IF Bytes(s3) # Blank THEN [kind |-> "nonl", s |-> s3, r |-> none]
       ELSE IF cert.buffer = <<>> THEN [kind |-> "panic", s |-> cert.s, r |-> none]
       ELSE IF sig.buffer = <<>> THEN [kind |-> "panic", s |-> sig.s, r |-> none]
       ELSE [kind |-> "proxy", s |-> sig.s,
             r |-> NewServiceProxy(Bytes(s2), cert.buffer, sig.buffer)]

\* Refresh returns err: unlock
RefreshReturn(err) ==
    /\ cacheM' = Free
    /\ wPc' = "idle"
    /\ scanner' = [lines |-> <<>>, pos |-> 0]
    /\ lastOp' = [lastOp EXCEPT !.err = err]

\* DoScan leaves its loop: no further separator, or an empty line after one
ScanEnd ==
    /\ CacheUp /\ wPc = "scan"
    /\ ScanBlock(scanner).kind = "end"
    /\ RefreshReturn("none")
    /\ UNCHANGED <<connectionVars, serviceVars, peerVars, identIndex, actionIndex, verifyRecords,
                   wProxy, crash, verifyApi, parsed, stored, cacheOps, lastRead>>

\* DoScan returns an error: no newline after the class records, or
\* NewServiceProxy failed
ScanMalformed ==
    /\ CacheUp /\ wPc = "scan"
    /\ LET b == ScanBlock(scanner)
       IN b.kind = "nonl" \/ (b.kind = "proxy" /\ b.r.err)
    /\ RefreshReturn("MalformedRecord")
    /\ UNCHANGED <<connectionVars, serviceVars, peerVars, identIndex, actionIndex, verifyRecords,
                   wProxy, crash, verifyApi, parsed, stored, cacheOps, lastRead>>

\* DoScan slices an empty certificate or signature buffer: the goroutine
\* panics; the deferred Unlock runs and the process dies
ScanPanic ==
    /\ CacheUp /\ wPc = "scan"
    /\ ScanBlock(scanner).kind = "panic"
    /\ crash' = "panic"
    /\ cacheM' = Free
    /\ lastOp' = [lastOp EXCEPT !.err = "panic"]
    /\ UNCHANGED <<connectionVars, serviceVars, peerVars, identIndex, actionIndex, verifyRecords,
                   wPc, wProxy, scanner, verifyApi, parsed, stored, cacheOps,
                   lastRead>>

\* the record fails Validate: removeNoLock, continue
ScanDrop ==
    /\ CacheUp /\ wPc = "scan"
    /\ LET b == ScanBlock(scanner)
       IN /\ b.kind = "proxy" /\ ~b.r.err
          /\ verifyRecords /\ ~Validate(b.r.proxy)
          /\ identIndex' = removeNoLock(identIndex, b.r.proxy)
          /\ scanner' = b.s
          /\ parsed' = Append(parsed, [proxy |-> b.r.proxy, kept |-> FALSE])
    /\ UNCHANGED <<connectionVars, serviceVars, peerVars, actionIndex, verifyRecords, cacheM, wPc,
                   wProxy, crash, verifyApi, lastOp, stored, cacheOps, lastRead>>

\* the record is not verified, or passes Validate: storeNoLock
ScanStore ==
    /\ CacheUp /\ wPc = "scan"
    /\ LET b == ScanBlock(scanner)
       IN /\ b.kind = "proxy" /\ ~b.r.err
          /\ ~verifyRecords \/ Validate(b.r.proxy)
          /\ identIndex' = storeIdent(identIndex, b.r.proxy)
          /\ actionIndex' = storeActions(actionIndex, MungedNames(b.r.proxy),
                                         b.r.proxy)
          /\ stored' = stored \cup {b.r.proxy}
          /\ scanner' = b.s
          /\ parsed' = Append(parsed, [proxy |-> b.r.proxy, kept |-> TRUE])
    /\ UNCHANGED <<connectionVars, serviceVars, peerVars, verifyRecords, cacheM, wPc, wProxy, crash,
                   verifyApi, lastOp, cacheOps, lastRead>>

\* Retrieve(ident): lock, look up, unlock
Retrieve(ident) ==
    /\ CacheUp /\ cacheM = Free
    /\ lastRead' = [op |-> "Retrieve", arg |-> ident,
                    res |-> RetrieveResult(ident), locked |-> TRUE, fault |-> FALSE,
                    during |-> wPc]
    /\ UNCHANGED <<connectionVars, serviceVars, peerVars, identIndex, actionIndex, verifyRecords,
                   cacheM, wPc, wProxy, scanner, crash, verifyApi, lastOp,
                   parsed, stored, cacheOps>>

\* Size(): lock, len(cache.identIndex), unlock
Size ==
    /\ CacheUp /\ cacheM = Free
    /\ lastRead' = [op |-> "Size", arg |-> "",
                    res |-> Cardinality(DOMAIN identIndex), locked |-> TRUE, fault |-> FALSE,
                    during |-> wPc]
    /\ UNCHANGED <<connectionVars, serviceVars, peerVars, identIndex, actionIndex, verifyRecords,
                   cacheM, wPc, wProxy, scanner, crash, verifyApi, lastOp,
                   parsed, stored, cacheOps>>

\* All(): lock, the values of identIndex (in map order), unlock
All ==
    /\ CacheUp /\ cacheM = Free
    /\ lastRead' = [op |-> "All", arg |-> "",
                    res |-> {identIndex[k] : k \in DOMAIN identIndex},
                    locked |-> TRUE, fault |-> FALSE,
                    during |-> wPc]
    /\ UNCHANGED <<connectionVars, serviceVars, peerVars, identIndex, actionIndex, verifyRecords,
                   cacheM, wPc, wProxy, scanner, crash, verifyApi, lastOp,
                   parsed, stored, cacheOps>>

\* SearchByAction(sector, action, version, envelope): reads actionIndex
\* without the lock
SearchByAction(a) ==
    /\ CacheUp
    /\ cacheM = Free
    /\ lastRead' = [op |-> "SearchByAction", arg |-> a,
                    res |-> SearchResult(a), locked |-> FALSE,
                    fault |-> FALSE,
                    during |-> wPc]
    /\ UNCHANGED <<connectionVars, serviceVars, peerVars, identIndex, actionIndex, verifyRecords,
                   cacheM, wPc, wProxy, scanner, crash, verifyApi, lastOp,
                   parsed, stored, cacheOps>>

\* SearchByAction while a Store or Refresh holds the lock and writes the
\* maps: a data race.  The read returns the list as it is, or the runtime
\* detects the concurrent map access and kills the process
SearchByActionRacing(a) ==
    /\ CacheUp
    /\ cacheM # Free
    /\ \/ /\ lastRead' = [op |-> "SearchByAction", arg |-> a,
                          res |-> SearchResult(a), locked |-> FALSE,
                          fault |-> FALSE,
                    during |-> wPc]
          /\ UNCHANGED crash
       \/ /\ lastRead' = [op |-> "SearchByAction", arg |-> a,
                          res |-> <<>>, locked |-> FALSE, fault |-> TRUE,
                    during |-> wPc]
          /\ crash' = "fault"
    /\ UNCHANGED <<connectionVars, serviceVars, peerVars, identIndex, actionIndex, verifyRecords,
                   cacheM, wPc, wProxy, scanner, verifyApi, lastOp, parsed,
                   stored, cacheOps>>

NextCache ==
    \/ DisableRecordVerification
    \/ EnableRecordVerification
    \/ \E instance \in StoreProxies : Store(instance)
    \/ StoreReturn
    \/ \E path \in Paths : RefreshFails(path) \/ RefreshOpen(path)
    \/ ScanEnd
    \/ ScanMalformed
    \/ ScanPanic
    \/ ScanDrop
    \/ ScanStore
    \/ \E ident \in Idents : Retrieve(ident)
    \/ Size
    \/ All
    \/ \E a \in SearchArgs : SearchByAction(a) \/ SearchByActionRacing(a)

\* the service cache, used by one goroutine that stores and refreshes and
\* one that looks up
SpecCache == InitNoTee /\ [][NextCache]_vars

\* ------------------------------------------------------------ Service
\* Register(name, callback): refused when serv.isRunning, else the map
\* assignment
Register(name) ==
    /\ IF isRunning
       THEN /\ lastRegister' = [name |-> name, err |-> RunningError,
                                run |-> runPc, added |-> FALSE]
            /\ UNCHANGED actions
       ELSE /\ actions' = actions \cup {name}
            /\ lastRegister' = [name |-> name, err |-> "nil", run |-> runPc,
                                added |-> TRUE]
    /\ UNCHANGED <<connectionVars, cacheVars, peerVars, isRunning,
                   listenerClosed, clients, clientsM, connectionsAccepted,
                   clientClosed, runPc, handlePc>>

\* Run() is called and enters its loop
RunStart ==
    /\ runPc = "idle"
    /\ runPc' = "accept"
    /\ UNCHANGED <<connectionVars, cacheVars, peerVars, isRunning, actions,
                   listenerClosed, clients, clientsM, connectionsAccepted,
                   clientClosed, handlePc, lastRegister>>

\* Accept returns a connection: the client is appended to serv.clients under
\* clientsM, its Handle goroutine is started, the counter is incremented
RunAccept ==
    /\ runPc = "accept"
    /\ ~listenerClosed
    /\ connectionsAccepted < MaxClients
    /\ clientsM = Free
    /\ clients' = Append(clients, connectionsAccepted + 1)
    /\ handlePc' = [handlePc EXCEPT ![connectionsAccepted + 1] = "loop"]
    /\ connectionsAccepted' = connectionsAccepted + 1
    /\ UNCHANGED <<connectionVars, cacheVars, peerVars, isRunning, actions,
                   listenerClosed, clientsM, clientClosed, runPc, lastRegister>>

\* Accept returns an error on the closed listener: break forLoop
RunLeave ==
    /\ runPc = "accept"
    /\ listenerClosed
    /\ runPc' = "close"
    /\ UNCHANGED <<connectionVars, cacheVars, peerVars, isRunning, actions,
                   listenerClosed, clients, clientsM, connectionsAccepted,
                   clientClosed, handlePc, lastRegister>>

\* after the loop: under clientsM, client.Close() for every tracked client;
\* Run then stands at serv.statsCloseChan <- true, a send on an unbuffered
\* channel from which no goroutine receives
RunCloseClients ==
    /\ runPc = "close"
    /\ clientsM = Free
    /\ clientClosed' = [c \in ClientIds |->
                          clientClosed[c] \/ c \in Range(clients)]
    /\ runPc' = "stats"
    /\ UNCHANGED <<connectionVars, cacheVars, peerVars, isRunning, actions,
                   listenerClosed, clients, clientsM, connectionsAccepted,
                   handlePc, lastRegister>>

\* Stop(): serv.listener.Close()
Stop ==
    /\ ~listenerClosed
    /\ listenerClosed' = TRUE
    /\ UNCHANGED <<connectionVars, cacheVars, peerVars, isRunning, actions,
                   clients, clientsM, connectionsAccepted, clientClosed, runPc,
                   handlePc, lastRegister>>

\* Handle(client) leaves HandlerLoop: the channel was closed, the timer
\* fired, or a reply could not be sent
ServiceHandleLeave(c) ==
    /\ handlePc[c] = "loop"
    /\ handlePc' = [handlePc EXCEPT ![c] = "close"]
    /\ UNCHANGED <<connectionVars, cacheVars, peerVars, isRunning, actions,
                   listenerClosed, clients, clientsM, connectionsAccepted,
                   clientClosed, runPc, lastRegister>>

\* client.Close() after the loop
ServiceHandleClose(c) ==
    /\ handlePc[c] = "close"
    /\ clientClosed' = [clientClosed EXCEPT ![c] = TRUE]
    /\ handlePc' = [handlePc EXCEPT ![c] = "remove"]
    /\ UNCHANGED <<connectionVars, cacheVars, peerVars, isRunning, actions,
                   listenerClosed, clients, clientsM, connectionsAccepted,
                   runPc, lastRegister>>

\* serv.RemoveClient(client): under clientsM, the client is closed and taken
\* out of serv.clients
RemoveClient(c) ==
    /\ handlePc[c] = "remove"
    /\ clientsM = Free
    /\ clients' = SelectSeq(clients, LAMBDA x : x # c)
    /\ handlePc' = [handlePc EXCEPT ![c] = "done"]
    /\ UNCHANGED <<connectionVars, cacheVars, peerVars, isRunning, actions,
                   listenerClosed, clientsM, connectionsAccepted, clientClosed,
                   runPc, lastRegister>>

ServiceHandle(c) ==
    ServiceHandleLeave(c) \/ ServiceHandleClose(c) \/ RemoveClient(c)

NextService ==
    \/ \E name \in RegisterNames : Register(name)
    \/ RunStart
    \/ RunAccept
    \/ RunLeave
    \/ RunCloseClients
    \/ Stop
    \/ \E c \in ClientIds : ServiceHandle(c)

\* a service built by NewServiceExplicitCert, its Run, its Handle
\* goroutines, and callers of Register and Stop
SpecService == InitNoTee /\ [][NextService]_vars

\* the scheduler runs Run and the Handle goroutines whenever they can take
\* a step
SpecServiceFair ==
    /\ SpecService
    /\ WF_vars(RunLeave)
    /\ WF_vars(RunCloseClients)
    /\ \A c \in ClientIds : WF_vars(ServiceHandle(c))

\* ------------------------------------------------- two connected peers
\* Each peer runs the Connection code: a Send caller and the packetReader.
\* stream[p] holds the packets written to p that p's reader has not read; it
\* stands for the sender's bufio.Writer, the socket buffers and the reader's
\* bufio.Reader, StreamCap packets in all.  A write blocks while it is full.

\* Send(msg) takes conn.readWriterLock
PeerSendBegin(p) ==
    /\ peerSend[p].pc = "idle"
    /\ peerLock[p] = Free
    /\ peerLock' = [peerLock EXCEPT ![p] = "send"]
    /\ peerSend' = [peerSend EXCEPT ![p] = [pc |-> "write", pkts |-> PeerPackets]]
    /\ UNCHANGED <<connectionVars, cacheVars, serviceVars, peerReader, stream>>

\* pkt.Write(conn.readWriter) of the next packet, once the stream has room
PeerSendWrite(p) ==
    /\ peerSend[p].pc = "write"
    /\ peerSend[p].pkts # <<>>
    /\ Len(stream[Other(p)]) < StreamCap
    /\ stream' = [stream EXCEPT ![Other(p)] = Append(@, Head(peerSend[p].pkts))]
    /\ peerSend' = [peerSend EXCEPT ![p].pkts = Tail(@)]
    /\ UNCHANGED <<connectionVars, cacheVars, serviceVars, peerLock, peerReader>>

\* after the last packet: Flush, return, the deferred Unlock
PeerSendReturn(p) ==
    /\ peerSend[p].pc = "write"
    /\ peerSend[p].pkts = <<>>
    /\ peerSend' = [peerSend EXCEPT ![p].pc = "done"]
    /\ peerLock' = [peerLock EXCEPT ![p] = Free]
    /\ UNCHANGED <<connectionVars, cacheVars, serviceVars, peerReader, stream>>

\* packetReader reads the next packet and routes it: a DATA packet takes it
\* into ackBytes; HEADER, EOF and ACK packets take it back to ReadPacket
PeerRead(p) ==
    /\ peerReader[p] = "read"
    /\ stream[p] # <<>>
    /\ stream' = [stream EXCEPT ![p] = Tail(@)]
    /\ peerReader' = [peerReader EXCEPT ![p] =
                         IF Head(stream[p]) = DATA THEN "ack" ELSE "read"]
    /\ UNCHANGED <<connectionVars, cacheVars, serviceVars, peerLock, peerSend>>

\* ackBytes gets conn.readWriterLock
PeerAckLock(p) ==
    /\ peerReader[p] = "ack"
    /\ peerLock[p] = Free
    /\ peerLock' = [peerLock EXCEPT ![p] = "reader"]
    /\ peerReader' = [peerReader EXCEPT ![p] = "write"]
    /\ UNCHANGED <<connectionVars, cacheVars, serviceVars, peerSend, stream>>

\* ackBytes writes the ACK packet once the stream has room, flushes, unlocks
PeerAckWrite(p) ==
    /\ peerReader[p] = "write"
    /\ Len(stream[Other(p)]) < StreamCap
    /\ stream' = [stream EXCEPT ![Other(p)] = Append(@, ACK)]
    /\ peerLock' = [peerLock EXCEPT ![p] = Free]
    /\ peerReader' = [peerReader EXCEPT ![p] = "read"]
    /\ UNCHANGED <<connectionVars, cacheVars, serviceVars, peerSend>>

NextPeers ==
    \E p \in Peers :
        \/ PeerSendBegin(p)
        \/ PeerSendWrite(p)
        \/ PeerSendReturn(p)
        \/ PeerRead(p)
        \/ PeerAckLock(p)
        \/ PeerAckWrite(p)

\* two peers on one stream, each sending one message to the other
SpecPeers == InitNoTee /\ [][NextPeers]_vars

\* ------------------------------------------------------------ history
ProtocolErrors == {"OutOfSequence", "DuplicateHeader", "UntrackedMessage"}

\* the packets routePacket accepted: all that were read, but for the one
\* that made it fail
Accepted == IF rdErr \in ProtocolErrors THEN Front(rcvd) ELSE rcvd

IsHeader(p) == p.type = HEADER
IsTerminator(p) == p.type \in {EOF, TXERR}
Nos(seq) == [i \in 1..Len(seq) |-> seq[i].no]
IsPrefix(a, b) == Len(a) <= Len(b) /\ a = SubSeq(b, 1, Len(a))

\* the body-carrying packets accepted for msgNo n, in arrival order
BodyPackets(n) ==
    SelectSeq(Accepted, LAMBDA p : p.type \in {DATA, TXERR} /\ p.no = n)

\* the messages the connection has published or holds
Published == IF rdPc = "publish" THEN Append(delivered, rdMsg) ELSE delivered
Held == {pktToMsg[k] : k \in DOMAIN pktToMsg}

\* ------------------------------------------------------------- claims
Terminators == SelectSeq(Accepted, IsTerminator)

\* no HEADER was accepted while an earlier message was still incomplete
NonInterleaved ==
    \A i \in 1..Len(Accepted) :
        IsHeader(Accepted[i]) =>
            Cardinality({j \in 1..(i - 1) : IsTerminator(Accepted[j])})
            = Cardinality({j \in 1..(i - 1) : IsHeader(Accepted[j])})

\* C1 as stated: the messages are delivered in the order their HEADERs
\* arrived, that is in increasing msgNo order, whatever the interleaving of
\* the packets
C1_DeliveredInHeaderOrder ==
    \A i, j \in 1..Len(delivered) : i < j => delivered[i].no < delivered[j].no

\* C1 amended: the messages are published in the order their EOF or TXERR
\* packets were accepted, each msgNo at most once; when no HEADER is accepted
\* while another message is incomplete this is the msgNo order 0, 1, 2, ...
C1_DeliveredInCompletionOrder ==
    /\ IsPrefix(Nos(Published), Nos(Terminators))
    /\ Len(Terminators) - Len(Published) =
           (IF rdPc = "ack" /\ Last(rcvd).type = TXERR THEN 1 ELSE 0)
    /\ \A i, j \in 1..Len(Published) : i < j => Published[i].no # Published[j].no
    /\ NonInterleaved => \A i \in 1..Len(Published) : Published[i].no = i - 1

\* HEADER(0), HEADER(1), EOF(1), EOF(0): message 1 is delivered before 0
C1_Witness == Nos(delivered) = <<1, 0>>

\* C2: incomingmsgno counts the accepted HEADERs, whose msgNos are 0, 1, 2,
\* ... in order; every key of pktToMsg is below incomingmsgno; a msgNo that
\* EOF or TXERR removed is not a key again; the duplicate-HEADER check never
\* fires
C2_IncomingCountsHeaders ==
    LET headers == SelectSeq(Accepted, IsHeader)
    IN /\ incomingmsgno = Len(headers)
       /\ \A i \in 1..Len(headers) : headers[i].no = i - 1
       /\ \A k \in DOMAIN pktToMsg : k < incomingmsgno
       /\ \A i \in 1..Len(Terminators) :
              Terminators[i].no \in DOMAIN pktToMsg
              => (rdPc = "ack" /\ i = Len(Terminators)
                  /\ Terminators[i] = Last(rcvd))
       /\ rdErr # "DuplicateHeader"

\* msgNo 0 was removed by its EOF or TXERR and delivered, msgNo 1 is being
\* assembled, and a second HEADER(0) was refused
C2_Witness ==
    /\ incomingmsgno = 2
    /\ DOMAIN pktToMsg = {1}
    /\ Nos(delivered) = <<0>>
    /\ rdErr = "OutOfSequence"
    /\ Last(rcvd).type = HEADER /\ Last(rcvd).no = 0

\* the packet just read breaks the protocol in the state it was read in
Violation(p) ==
    \/ p.type = HEADER /\ p.no # incomingmsgno
    \/ p.type \in {DATA, EOF, TXERR} /\ p.no \notin DOMAIN pktToMsg

\* the step that reads a violating packet
OnViolation ==
    (Len(rcvd') = Len(rcvd) + 1 /\ Violation(Last(rcvd')))
    => (/\ rdPc' = "close"
        /\ rdErr' \in ProtocolErrors
        /\ UNCHANGED <<pktToMsg, incomingmsgno, delivered, rdMsg, wire>>)

\* the steps after the violation
AfterViolation ==
    rdErr \in ProtocolErrors
    => (/\ UNCHANGED <<rcvd, pktToMsg, incomingmsgno, delivered, rdMsg, rdErr>>
        /\ rdPc' \in {"close", "done"}
        /\ (rdPc' # rdPc => (rdPc' = "done" /\ msgsClosed')))

\* C3: a HEADER whose msgNo is not incomingmsgno, or a DATA, EOF or TXERR
\* for a msgNo that is not a key of pktToMsg, ends the read loop: pktToMsg
\* and incomingmsgno stay as they were and nothing is published for it;
\* after that the reader reads, changes and publishes nothing, and its only
\* step is the close of conn.msgs
C3_ViolationEndsReader ==
    /\ [][OnViolation]_vars
    /\ [][AfterViolation]_vars
    /\ [](rdErr \in ProtocolErrors => rdPc \in {"close", "done"})
    /\ [](rdPc = "done" => msgsClosed)

\* HEADER(1) arrived where HEADER(0) was expected, or a packet for an
\* unknown msgNo while message 0 was being assembled: the reader has closed
\* the channel
C3_Witness ==
    /\ rdErr \in {"OutOfSequence", "UntrackedMessage"}
    /\ rdPc = "done"
    /\ msgsClosed
    /\ DOMAIN pktToMsg = {0}
    /\ Len(delivered) = 0

\* the HEADER packet that opened msgNo n
HeaderOf(n) == SelectSeq(Accepted, LAMBDA p : IsHeader(p) /\ p.no = n)[1]

\* the bodies of the DATA and TXERR packets of msgNo n, concatenated
BodyOf(n) == Flatten([i \in 1..Len(BodyPackets(n)) |-> BodyPackets(n)[i].body])

\* the TXERR packets accepted for msgNo n
TxErrOf(n) == SelectSeq(Accepted, LAMBDA p : p.type = TXERR /\ p.no = n)

\* C4 as stated: every message published, and every message being
\* assembled, has the header fields of the HEADER packet of its msgNo, Error
\* among them, and as body the bodies of the DATA and TXERR packets of that
\* msgNo in arrival order
C4_HeaderAndBody ==
    \A m \in {Published[i] : i \in 1..Len(Published)} \cup Held :
        /\ m.rest = HeaderOf(m.no).hdr.rest
        /\ m.requestId = HeaderOf(m.no).hdr.requestId
        /\ m.error = HeaderOf(m.no).hdr.error
        /\ m.body = BodyOf(m.no)

\* C4 amended: as stated, except that a TXERR replaces the Error field: a
\* message has the Error of its HEADER packet until a TXERR packet of its
\* msgNo arrives, and from then on that packet's body as text, or the
\* default text when the body is empty
C4_Reassembly ==
    \A m \in {Published[i] : i \in 1..Len(Published)} \cup Held :
        /\ m.rest = HeaderOf(m.no).hdr.rest
        /\ m.requestId = HeaderOf(m.no).hdr.requestId
        /\ m.error = IF TxErrOf(m.no) = <<>>
                     THEN HeaderOf(m.no).hdr.error
                     ELSE TxErrText(Last(TxErrOf(m.no)).body)
        /\ m.body = BodyOf(m.no)

\* HEADER(0) with Error <<7>>, HEADER(1), DATA(0), TXERR(0): message 0 was
\* delivered with both bodies and the TXERR's text as Error, while message 1
\* is being assembled
C4_Witness ==
    /\ Len(delivered) = 1
    /\ delivered[1].no = 0
    /\ delivered[1].body = <<1, 3>>
    /\ delivered[1].rest = "B"
    /\ delivered[1].error = <<3>>
    /\ HeaderOf(0).hdr.error = <<7>>
    /\ 1 \in DOMAIN pktToMsg
    /\ rcvd[2].type = HEADER

\* the bodies of the ACK packets on the stream for msgNo n, in order
AcksOnWire(n) ==
    LET acks == SelectSeq(wire, LAMBDA p : p.type = ACK /\ p.no = n)
    IN [i \in 1..Len(acks) |-> acks[i].body]

\* the cumulative byte counts after each body-carrying packet of msgNo n
\* for which ackBytes has run, in decimal
AcksDue(n) ==
    LET bp == BodyPackets(n)
        all == [i \in 1..Len(bp) |->
                  Decimal(Len(Flatten([j \in 1..i |-> bp[j].body])))]
    IN IF rdPc = "ack" /\ Last(rcvd).no = n THEN Front(all) ELSE all

\* C5 as stated: every accepted DATA packet has its ACK on the stream, with
\* the cumulative count, before the next packet is processed
C5_EveryDataAcked == \A n \in MsgNos : AcksOnWire(n) = AcksDue(n)

\* C5 amended: ackBytes runs once per accepted DATA (and TXERR) packet,
\* before the next packet is read, with the cumulative count; its ACK reaches
\* the stream unless the stream has been closed, in which case it is dropped
\* and the reader goes on.  The ACKs on the stream for a msgNo are a prefix
\* of the cumulative counts, all of them while the stream is open, and then
\* the last one for a delivered message is its body length
C5_AcksWhileOpen ==
    /\ \A n \in MsgNos :
          /\ IsPrefix(AcksOnWire(n), AcksDue(n))
          /\ ~connClosed => AcksOnWire(n) = AcksDue(n)
    /\ \A i \in 1..Len(delivered) :
          LET a == AcksOnWire(delivered[i].no)
          IN (~connClosed /\ Len(a) > 0)
             => Last(a) = Decimal(Len(delivered[i].body))

\* two DATA packets of message 0 were acknowledged with "6" and "12"
C5_Witness ==
    /\ AcksOnWire(0) = << <<6>>, <<1, 2>> >>
    /\ ~connClosed
    /\ rdPc = "read"

\* the HEADER packets on the stream before position i
HeadersBefore(i) == Cardinality({j \in 1..(i - 1) : wire[j].type = HEADER})

\* C6: on the stream every HEADER starts a group and carries the next msgNo
\* 0, 1, 2, ...; every DATA and EOF directly follows a HEADER or DATA of its
\* own msgNo; an ACK never stands inside a group; a group without its EOF is
\* the last thing on the stream and belongs to a Send still writing, or to
\* one that gave up on a closed stream
C6_WireGrouped ==
    /\ \A i \in 1..Len(wire) :
          LET p == wire[i]
          IN /\ p.type = HEADER =>
                  /\ i = 1 \/ wire[i - 1].type \in {EOF, ACK}
                  /\ p.no = HeadersBefore(i)
             /\ p.type \in {DATA, EOF} =>
                  /\ i > 1
                  /\ wire[i - 1].type \in {HEADER, DATA}
                  /\ wire[i - 1].no = p.no
             /\ p.type = ACK => (i = 1 \/ wire[i - 1].type \in {EOF, ACK})
    /\ (Len(wire) > 0 /\ Last(wire).type \in {HEADER, DATA}) =>
          \/ \E s \in Senders : sPc[s] \in {"write", "retry"}
          \/ connClosed

\* two Sends and the reader's ACK in between: group 0 with two DATA
\* packets, an ACK, group 1
C6_Witness ==
    /\ Len(wire) = 7
    /\ [i \in 1..7 |-> wire[i].type] =
          <<HEADER, DATA, DATA, EOF, ACK, HEADER, EOF>>
    /\ wire[6].no = 1

\* a Send call with a zero RequestId
RejectedCall ==
    /\ sendCalls' = sendCalls + 1
    /\ lastSend'.msg.requestId = 0

\* C7: a Send of a message whose RequestId is 0 returns the error, writes
\* nothing and changes nothing of the connection: outgoingmsgno, the stream,
\* the lock and the caller's position stay as they were
C7_ZeroRequestIdRefused ==
    [][RejectedCall =>
          (/\ sRes'[lastSend'.who] = "MissingRequestId"
           /\ UNCHANGED <<connVars, readerVars, sPc, sPkts>>)]_vars

\* a refused Send, then a Send that took msgNo 0 and wrote its HEADER
C7_Witness ==
    /\ \E s \in Senders : sRes[s] = "MissingRequestId"
    /\ sendCalls = 2
    /\ outgoingmsgno = 1
    /\ Len(wire) > 0
    /\ wire[1].type = HEADER /\ wire[1].no = 0

\* C8 as stated: every Send returns
C8_SendReturns == \A s \in Senders : (sPc[s] # "idle") ~> (sPc[s] = "idle")

\* the steps a Close call takes when isClosed is set
LaterCloseChangesNothing ==
    isClosed => UNCHANGED <<isClosed, connClosed, connCloses, closedMutex, cPc>>

\* once conn.msgs is closed nothing is published
NoPublishAfterClose ==
    msgsClosed => (delivered' = delivered /\ rdPc' = rdPc /\ msgsClosed')

\* C9: conn.conn.Close() runs once, in the first Close; a Close that finds
\* isClosed changes nothing; conn.msgs is closed at most once, by the reader
\* after its loop, and nothing is sent on it afterwards
C9_CloseOnce ==
    /\ [](connCloses <= 1 /\ (connClosed <=> connCloses = 1))
    /\ [](isClosed => connClosed)
    /\ [](msgsCloses <= 1 /\ (msgsClosed <=> msgsCloses = 1))
    /\ [](~sendAfterClose)
    /\ [](msgsClosed => rdPc = "done")
    /\ [][LaterCloseChangesNothing]_vars
    /\ [][NoPublishAfterClose]_vars

\* the application and the handler (twice) have called Close, the reader
\* has closed conn.msgs after a delivery
C9_Witness ==
    /\ closeCalls = 1
    /\ hPc = "done"
    /\ \A c \in Closers : cPc[c] = "idle"
    /\ isClosed
    /\ connCloses = 1
    /\ msgsClosed
    /\ Len(delivered) = 1

\* C10 as stated: once the connection is closed, or the read loop has ended
\* on an error, the reader terminates and conn.msgs is closed
C10_ReaderTerminates ==
    (connClosed \/ rdErr # "none") ~> (rdPc = "done" /\ msgsClosed)

\* the positions in rcvd of the TXERR packets routePacket has finished with:
\* accepted, acknowledged and handed to Handle
TxErrDone ==
    {i \in 1..Len(Accepted) :
        /\ rcvd[i].type = TXERR
        /\ ~(i = Len(rcvd) /\ rdPc \in {"ack", "publish"})}

\* the message delivered for msgNo n
DeliveredFor(n) == SelectSeq(delivered, LAMBDA m : m.no = n)

\* what C11 says of a finished TXERR, but for the ACK: one message is
\* delivered for its msgNo, with the TXERR's text as error and the
\* accumulated bytes followed by the TXERR body as body; the msgNo is no
\* longer pending; the TXERR is no error to the reader, which reads on
\* with conn.msgs open
TxErrCompletes(i) ==
    LET p == rcvd[i]
        d == DeliveredFor(p.no)
    IN /\ Len(d) = 1
       /\ d[1].error = (IF p.body = <<>> THEN UnknownErrorText ELSE p.body)
       /\ d[1].body = BodyOf(p.no)
       /\ Last(BodyPackets(p.no)) = p
       /\ p.no \notin DOMAIN pktToMsg
       /\ (i = Len(rcvd) /\ rdErr = "none") => (rdPc = "read" /\ ~msgsClosed)
       /\ (i < Len(rcvd) /\ ~msgsClosed)
             => rdPc \in {"read", "ack", "publish", "close"}

\* C11 as stated: a TXERR for a tracked msgNo completes the message, and an
\* ACK with the new cumulative byte count is on the stream
C11_TxErrCompletesAcked ==
    \A i \in TxErrDone :
        /\ TxErrCompletes(i)
        /\ AcksOnWire(rcvd[i].no) # <<>>
        /\ Last(AcksOnWire(rcvd[i].no)) = Decimal(Len(BodyOf(rcvd[i].no)))

\* C11 amended: a TXERR for a tracked msgNo completes the message as stated;
\* ackBytes is called with the new cumulative count, and its ACK is on the
\* stream if the stream was not closed before the write (a closed stream
\* drops it, and the message is delivered all the same)
C11_TxErrCompletes ==
    \A i \in TxErrDone :
        /\ TxErrCompletes(i)
        /\ IsPrefix(AcksOnWire(rcvd[i].no), AcksDue(rcvd[i].no))
        /\ Last(AcksDue(rcvd[i].no)) = Decimal(Len(BodyOf(rcvd[i].no)))
        /\ ~connClosed => AcksOnWire(rcvd[i].no) = AcksDue(rcvd[i].no)

\* HEADER(0), DATA(0) <<1>>, TXERR(0) <<3>>, HEADER(1): message 0 was
\* delivered with error <<3>> and body <<1, 3>>, acknowledged with "1" and
\* "2", and the reader went on to accept the next HEADER
C11_Witness ==
    /\ TxErrDone = {3}
    /\ Len(rcvd) = 4
    /\ delivered = <<Msg(0, rcvd[1].hdr.rest, rcvd[1].hdr.requestId,
                         <<3>>, <<1, 3>>)>>
    /\ AcksOnWire(0) = << <<1>>, <<2>> >>
    /\ 1 \in DOMAIN pktToMsg
    /\ ~msgsClosed

\* ------------------------------------------------------ cache claims
\* the proxies reachable from actionIndex
Indexed ==
    UNION {{actionIndex[k][i] : i \in 1..Len(actionIndex[k])} :
              k \in DOMAIN actionIndex}

\* no Store or Refresh is under way
Quiescent == wPc = "idle" /\ crash = "none"

\* C12 as stated: after any sequence of Store and Refresh calls, every proxy
\* in a list of actionIndex is the value of identIndex for its ident, so
\* that SearchByAction returns no superseded or replaced proxy
C12_ActionIndexWithinIdentIndex ==
    Quiescent => \A p \in Indexed : RetrieveResult(p.ident) = p

\* the latest Refresh has returned without error
Refreshed == Quiescent /\ lastOp.op = "refresh" /\ lastOp.err = "none"

\* the records of the refreshed file that were the last of their ident
LastOfIdent(i) == \A j \in (i + 1)..Len(parsed) : parsed[j].proxy.ident # parsed[i].proxy.ident

\* C13 as stated: after a Refresh made with verification switched off by
\* DisableRecordVerification, a record whose signature does not verify is
\* indexed (Retrieve returns it for its ident, Size counts it); after one made
\* with verification switched on by EnableRecordVerification it is not
C13_SwitchesWork ==
    Refreshed =>
        \A i \in 1..Len(parsed) :
            LET p == parsed[i].proxy
            IN (~Validate(p) /\ LastOfIdent(i)) =>
                  /\ lastOp.api = "disabled" =>
                        /\ RetrieveResult(p.ident) = p
                        /\ p.ident \in DOMAIN identIndex
                  /\ lastOp.api = "enabled" => RetrieveResult(p.ident) # p

\* the files made of blocks that follow the ABNF to the letter (signature,
\* blank line), which differ only in whether their signatures verify
BlankBlocks == {b \in WellFormedBlocks : b.shape = "blank"}

\* the record of a block, as NewServiceProxy builds it
RecordOf(b) == NewServiceProxy(b.cr, <<CertLine>>, <<b.sig>>).proxy

\* the latest call was a Refresh of the file made of the blocks bs, and it
\* has returned
RefreshedFrom(bs) ==
    /\ wPc = "idle"
    /\ crash = "none"
    /\ lastOp.op = "refresh"
    /\ lastOp.path = File(FileLines(bs))

\* C14 as stated: with verification on, a Refresh of a file whose only flaw
\* is records with failing signatures returns no error; the failing records
\* are not in identIndex; every record that verifies is retrievable, one
\* with the ident of a later failing record included
C14_BadSignatureAffectsOnlyItself ==
    \A bs \in BlockSeqs(BlankBlocks) :
        (RefreshedFrom(bs) /\ lastOp.api = "default") =>
            /\ lastOp.err = "none"
            /\ \A i \in 1..Len(bs) :
                  IF Validate(RecordOf(bs[i]))
                  THEN RetrieveResult(RecordOf(bs[i]).ident) = RecordOf(bs[i])
                  ELSE RetrieveResult(RecordOf(bs[i]).ident) # RecordOf(bs[i])

\* the proxies the cache holds, in either index
Cached == {identIndex[k] : k \in DOMAIN identIndex} \cup Indexed

\* C15 as stated: a Refresh (here the first call on a new cache) that meets
\* a malformed block after valid ones returns an error and leaves none of
\* the file's proxies in the cache
C15_MalformedDiscardsAll ==
    (wPc = "idle" /\ cacheOps = 1 /\ lastOp.op = "refresh"
       /\ lastOp.err = "MalformedRecord")
    => \A i \in 1..Len(parsed) : parsed[i].proxy \notin Cached

\* the idents of the records of bs whose signatures verify
ValidIdents(bs) ==
    {RecordOf(bs[i]).ident : i \in {j \in 1..Len(bs) : Validate(RecordOf(bs[j]))}}

\* C16 as stated: after a successful Refresh (verification on) of a file
\* whose valid records have the idents S, Retrieve returns a proxy for the
\* idents in S and nil for every other ident, whatever the cache held before,
\* and Size is the number of idents in S
C16_RefreshReplacesContents ==
    \A bs \in BlockSeqs(BlankBlocks) :
        (RefreshedFrom(bs) /\ lastOp.api = "default" /\ lastOp.err = "none") =>
            /\ \A ident \in Idents :
                  (RetrieveResult(ident) # Nil) <=> (ident \in ValidIdents(bs))
            /\ Cardinality(DOMAIN identIndex) = Cardinality(ValidIdents(bs))

\* the lookups the claim names for a stored proxy p: its sector, each
\* "className.actionName" with the action's version, each protocol
SearchArgsOf(p) ==
    UNION {{[sector |-> p.sector,
             action |-> p.classes[c].className \o "."
                           \o p.classes[c].actions[a].actionName,
             version |-> p.classes[c].actions[a].version,
             envelope |-> p.protocols[q]] :
               a \in 1..Len(p.classes[c].actions), q \in 1..Len(p.protocols)} :
           c \in 1..Len(p.classes)}

\* C17: when Store(p) has returned, Retrieve(p.ident) gives p, the latest
\* stored proxy of the ident, and SearchByAction on each (sector,
\* class.action, version, protocol) of p gives a list that contains p; a
\* search on a munged name that no stored proxy produces gives the empty list
C17_StoreThenLookup ==
    /\ (Quiescent /\ lastOp.op = "store") =>
          /\ lastOp.err = "none"
          /\ RetrieveResult(lastOp.proxy.ident) = lastOp.proxy
          /\ \A a \in SearchArgsOf(lastOp.proxy) :
                lastOp.proxy \in Range(SearchResult(a))
    /\ \A a \in SearchArgs :
          (\A p \in stored :
              SearchMungedName(a.sector, a.action, a.version, a.envelope)
                 \notin Range(MungedNames(p)))
          => SearchResult(a) = <<>>

\* Store(a1), then Store(a2) of the same ident: Retrieve gives a2, the
\* search for Cls.do version 2 gives the list of a2 alone, version 1 still
\* lists a1, and Cls.do version 2 over jsonstore, which nobody offers, is empty
C17_Witness ==
    /\ Quiescent
    /\ lastOp.op = "store"
    /\ lastOp.proxy.classRecordsRaw = "a2"
    /\ identIndex["a"].classRecordsRaw = "a2"
    /\ Cardinality(stored) = 2
    /\ SearchResult([sector |-> "main", action |-> "Cls.do", version |-> 2,
                     envelope |-> "json"]) = <<lastOp.proxy>>
    /\ Len(SearchResult([sector |-> "main", action |-> "Cls.do", version |-> 1,
                         envelope |-> "json"])) = 1
    /\ SearchResult([sector |-> "main", action |-> "Cls.do", version |-> 2,
                     envelope |-> "jsonstore"]) = <<>>

\* C18 as stated: the lookups take cacheM, so that none of them reads the
\* indexes while a Store or Refresh is between its Lock and its Unlock
C18_LookupsHoldMutex ==
    lastRead.op # "none" => lastRead.during = "idle"

\* a step that is a Refresh call on a path where nothing can be opened: a
\* missing path, a directory, a file that cannot be read
FailingRefreshCall ==
    /\ cacheOps' = cacheOps + 1
    /\ lastOp'.op = "refresh"
    /\ lastOp'.path.kind \in {"missing", "directory", "unreadable"}

\* what C19 says of such a call: it returns an error and both indexes are
\* what they were
ReturnsErrorIndexesKept ==
    /\ lastOp'.err = "CacheIoError"
    /\ wPc' = "idle"
    /\ cacheM' = Free
    /\ identIndex' = identIndex
    /\ actionIndex' = actionIndex

\* C19: a Refresh that fails at the stat or open step returns an error and
\* leaves identIndex and actionIndex exactly as they were before the call
C19_FailedOpenKeepsIndexes ==
    [][FailingRefreshCall => ReturnsErrorIndexesKept]_vars

\* a proxy was stored, and then a Refresh on a directory returned an error
\* with the proxy still in both indexes
C19_Witness ==
    /\ Quiescent
    /\ lastOp.op = "refresh"
    /\ lastOp.path = Directory
    /\ lastOp.err = "CacheIoError"
    /\ DOMAIN identIndex = {"b"}
    /\ DOMAIN actionIndex = {"main:Cls.do~1#json", "main:Cls.do~1#jsonstore"}

\* the sequences of well-formed blocks with signatures that verify and
\* distinct idents; a block's signature ends in a blank line ("blank") or
\* directly at the next separator or the end of the file ("tight")
DistinctIdentBlocks ==
    {bs \in BlockSeqs({b \in WellFormedBlocks : b.sig = GoodSig}) :
        \A i, j \in 1..Len(bs) :
            RecordOf(bs[i]).ident = RecordOf(bs[j]).ident => i = j}

\* C20 as stated: a Refresh of a file of N such blocks indexes all N records
C20_AllBlocksIndexed ==
    \A bs \in DistinctIdentBlocks :
        RefreshedFrom(bs) =>
            /\ lastOp.err = "none"
            /\ Cardinality(DOMAIN identIndex) = Len(bs)
            /\ \A i \in 1..Len(bs) :
                  RetrieveResult(RecordOf(bs[i]).ident) = RecordOf(bs[i])

\* the files with a truncated block: well-formed blank-terminated blocks,
\* then a block that stops after the class records' blank line ("nocert") or
\* after the certificate's blank line ("nosig"), then possibly more blocks
TruncatedFiles ==
    {bs \in BlockSeqs(Blocks) :
        \E i \in 1..Len(bs) :
            /\ bs[i].shape \in {"nocert", "nosig"}
            /\ \A j \in 1..(i - 1) : bs[j] \in BlankBlocks}

\* C21 as stated: the parser never crashes, and a Refresh of a file with a
\* truncated block returns a MalformedRecord error
C21_TruncatedIsMalformed ==
    /\ crash # "panic"
    /\ \A bs \in TruncatedFiles :
          RefreshedFrom(bs) => lastOp.err = "MalformedRecord"

\* ----------------------------------------------------- service claims
\* C22 as stated: a Register call made once Run has started returns the
\* error "cannot register handlers while server is running" and leaves the
\* actions map as it was; a call made before Run succeeds
C22_NoRegisterWhileRunning ==
    /\ lastRegister.run \in {"accept", "close", "stats"} =>
          (lastRegister.err = RunningError /\ ~lastRegister.added)
    /\ (lastRegister.name # "" /\ lastRegister.run = "idle") =>
          (lastRegister.err = "nil" /\ lastRegister.name \in actions)

\* Run has returned: its send on statsCloseChan has completed
RunReturned == runPc = "returned"

\* C23 as stated: once Stop has closed the listener of a running service,
\* Run eventually returns
C23_RunReturnsAfterStop == (listenerClosed /\ runPc # "idle") ~> RunReturned

\* -------------------------------------------------------- peer claims
\* peer p's reader waits in ackBytes for the lock its own Send holds, and
\* that Send waits to write into the full stream towards the other peer
ReaderBehindBlockedSend(p) ==
    /\ peerReader[p] = "ack"
    /\ peerLock[p] = "send"
    /\ peerSend[p].pkts # <<>>
    /\ Len(stream[Other(p)]) = StreamCap

\* C24 as stated: no reachable state has both peers' readers blocked in
\* ackBytes behind their own Sends while both Sends are blocked on stream
\* writes that the other peer's reader will never drain
C24_NoSendDeadlock == ~(\A p \in Peers : ReaderBehindBlockedSend(p))
====
